---------------------------- MODULE Spec2Model ----------------------------
(***************************************************************************)
(* Model of the GraphQL-vs-REST experiment scripts.                        *)
(*                                                                         *)
(*   scripts/benchmark.py             run_benchmark and what it calls      *)
(*   scripts/statistical_analysis.py  perform_statistical_tests            *)
(*                                                                         *)
(* Time is counted in ticks of half a second (the warm-up sleep of 0.5 s   *)
(* is one tick, the inter-request delay of 1.0 s is two).  The duration of *)
(* an HTTP exchange, and with it response_time and timestamp of a          *)
(* BenchmarkResult, is not modelled.                                       *)
(***************************************************************************)
EXTENDS Integers, Sequences, FiniteSets, TLC

VARIABLES
    phase,          \* position of run_benchmark: the phase it is in
    step,           \* position inside HEALTH_CHECK and WARMUP
    rest_ok,        \* run_benchmark's local rest_ok
    graphql_ok,     \* run_benchmark's local graphql_ok
    warm_i,         \* warm-up rounds completed (the `for _ in range(10)` loop)
    api_idx,        \* index into API_TYPES of the leaf to measure next
    scenario_num,   \* scenario of the leaf to measure next
    replication,    \* replication of the leaf to measure next
    results,        \* run_benchmark's local list `results`
    summary,        \* the counts print by the summary block
    files,          \* the results directory: file name -> rows
    RESULTS_FILE,   \* module-level RESULTS_FILE of the running process
    clock,          \* wall clock, in ticks
    wire,           \* history: outcome of each measurement exchange of the run
    healthProbes,   \* history: liveness probes issued by the health check
    warmupProbes,   \* history: liveness probes issued by the warm-up
    requests,       \* history: HTTP requests issued by measure_request
    writes,         \* history: times the run opened RESULTS_FILE for writing
    completed,      \* history: <<file name, rows>> of every dataset written
    runs,           \* history: invocations of run_benchmark so far
    deviations,     \* history: exchanges with a non-nominal outcome so far
    st_pc,          \* position of a call of perform_statistical_tests
    rest_data,      \* its argument rest_data
    graphql_data,   \* its argument graphql_data
    result,         \* the dict it returns
    tests_run,      \* history: the two-sample tests of scipy.stats it called
    shapiro_calls,  \* history: the samples it handed to stats.shapiro
    stage,          \* the script of the analysis pipeline that is invoked
    an_pc,          \* position of its main
    csv,            \* the dataset file it is given or finds, if any
    df,             \* main's df_success
    overall_results,   \* main's overall_results
    scenario_results,  \* main's scenario_results
    document,       \* content of results/statistical_results.json
    outputs,        \* history: the files the invocation has written
    exit_status,    \* exit status of the process
    failed_at,      \* history: the step of main that ended the process early
    rn_pc,          \* position of analyze_overall: the comparison it computes next
    rn_rest,        \* the successful REST records of its frame, as milliseconds
    rn_graphql,     \* the successful GraphQL records of its frame
    np_random,      \* the state of numpy's global random source
    rn_lib,         \* the answers scipy gives for these samples
    rn_results,     \* the dict analyze_overall fills
    dg_leaf,        \* the leaf whose descriptor run_benchmark generates next
    dg_drawn,       \* history: the descriptors generated so far, leaf by leaf
    dg_odd,         \* history: draws of `random` that were not the first value
    sp_pc,          \* where run_sprint2.main is
    sp_files,       \* the dataset files the glob of run_sprint2 finds
    sp_started,     \* history: the stages run_sprint2 has started, in order
    sp_ended,       \* history: the outcome of every stage that has exited
    sp_status,      \* exit status of run_sprint2, -1 while it runs
    pl_files,       \* the datasets of the results directory: name and modification time
    pl_clock,       \* the time of the file system
    pl_stats,       \* statistical_results.json; history: the dataset it was computed from
    pl_reports,     \* history: the reports generated, with the dataset and document each read
    pl_analysing,   \* the dataset a running statistical_analysis.py has loaded, 0 if none runs
    pl_reading      \* the dataset a running generate_report.py has loaded, 0 if none runs

benchVars == <<phase, step, rest_ok, graphql_ok, warm_i, api_idx, scenario_num,
               replication, results, summary, files, RESULTS_FILE, clock, wire,
               healthProbes, warmupProbes, requests, writes, completed, runs,
               deviations>>

statVars == <<st_pc, rest_data, graphql_data, result, tests_run, shapiro_calls>>

anVars == <<stage, an_pc, csv, df, overall_results, scenario_results, document,
            outputs, exit_status, failed_at>>

rnVars == <<rn_pc, rn_rest, rn_graphql, np_random, rn_lib, rn_results>>

dgVars == <<dg_leaf, dg_drawn, dg_odd>>

spVars == <<sp_pc, sp_files, sp_started, sp_ended, sp_status>>

plVars == <<pl_files, pl_clock, pl_stats, pl_reports, pl_analysing, pl_reading>>

vars == <<benchVars, statVars, anVars, rnVars, dgVars, spVars, plVars>>

---------------------------------------------------------------------------
(* Bounds of the model *)

\* longest sample handed to perform_statistical_tests
MaxSample == 3
\* largest observation of a sample
MaxValue == 1

\* REPLICATIONS of benchmark.py (30 there): the configured replication count R
REPLICATIONS == 2
\* largest response body, in bytes
MaxBody == 1
\* exchanges (warm-up probes and measurements) that may deviate from Nominal
MaxDeviations == 1
\* invocations of run_benchmark in SpecRepeat
MaxRuns == 2
\* ticks that may pass between two invocations in SpecRepeat
MaxIdle == 2
\* records of a dataset given to the analysis
MaxRows == 2
\* longest sample of the frames whose bootstrap is followed draw by draw
MaxResample == 2
\* n_bootstrap of perform_statistical_tests (1000 there)
N_BOOTSTRAP == 2
\* period of the stream of the random source
RngPeriod == 3
\* largest return code of a stage of run_sprint2 that is followed (255 there)
MaxReturnCode == 2
\* significant bits of a floating-point number (53 there)
MantissaBits == 3

(* Constants of the program *)

NumScenarios == 6
WARMUP_ROUNDS == 10
WARMUP_SLEEP == 1
REQUEST_DELAY == 2
TicksPerSecond == 2
\* benchmark.py: random.randint(1, 1000)
USER_ID_MIN == 1
USER_ID_MAX == 1000
\* statistical_analysis.py: the level 0.05 of the normality test, in thousandths
Alpha == 50
\* statistical_analysis.py: the smallest sample test_normality hands to shapiro
MinShapiro == 3
\* statistical_analysis.py: the largest sample stats.shapiro is given
ShapiroCap == 5000

API_TYPES == <<"rest", "graphql">>

NoError == "None"

---------------------------------------------------------------------------
(* The environment: what one HTTP exchange can do *)

\* statuses of a response that carries a body
Statuses == {200, 500}

\* a transport error, a timeout, a response with a body of 0..MaxBody bytes,
\* or 204 No Content
Outcomes ==
    {[kind |-> k, status |-> 0, body |-> 0] : k \in {"transport", "timeout"}}
    \cup {[kind |-> "response", status |-> s, body |-> b] :
             s \in Statuses, b \in 0..MaxBody}
    \cup {[kind |-> "response", status |-> 204, body |-> 0]}

Nominal == [kind |-> "response", status |-> 200, body |-> 1]

\* requests.get / requests.post raise on a transport error or a timeout
Raises(o) == o.kind \in {"transport", "timeout"}

Allowed(o) == o = Nominal \/ deviations < MaxDeviations

Deviate(o) == IF o = Nominal THEN deviations ELSE deviations + 1

---------------------------------------------------------------------------
(* Pure functions of benchmark.py *)

\* str.upper() on the two API labels
Upper(api) == IF api = "rest" THEN "REST"
              ELSE IF api = "graphql" THEN "GRAPHQL"
              ELSE api

\* the method of the descriptor SCENARIOS[api_type][scenario_num]() returns
ScenarioMethod(api, n) == IF api = "rest" THEN "GET" ELSE "POST"

\* datetime.now().strftime("%Y%m%d_%H%M%S"): the clock cut to whole seconds
Stamp(t) == t \div TicksPerSecond

\* response.raise_for_status()
RaiseForStatus(o) == o.status >= 400 /\ o.status < 600

ErrorText(o) == IF o.kind = "transport" THEN "ConnectionError"
                ELSE IF o.kind = "timeout" THEN "Timeout"
                ELSE "HTTPError"

\* measure_request sending the request a second time after a failure
MeasureRequest_Retry(method, o) ==
    IF method \notin {"GET", "POST"}
    THEN [response_size |-> 0, success |-> FALSE, error |-> "ValueError", sent |-> 0]
    ELSE IF Raises(o) \/ RaiseForStatus(o)
    THEN [response_size |-> 0, success |-> FALSE, error |-> ErrorText(o), sent |-> 2]
    ELSE [response_size |-> o.body, success |-> TRUE, error |-> NoError, sent |-> 1]

\* measure_request with response_size kept on an HTTP error status
MeasureRequest_SizeOnError(method, o) ==
    IF method \notin {"GET", "POST"}
    THEN [response_size |-> 0, success |-> FALSE, error |-> "ValueError", sent |-> 0]
    ELSE IF Raises(o)
    THEN [response_size |-> 0, success |-> FALSE, error |-> ErrorText(o), sent |-> 1]
    ELSE IF RaiseForStatus(o)
    THEN [response_size |-> o.body, success |-> FALSE, error |-> ErrorText(o), sent |-> 1]
    ELSE [response_size |-> o.body, success |-> TRUE, error |-> NoError, sent |-> 1]

\* measure_request: (response_size, success, error) and the requests it sent
MeasureRequest(method, o) ==
    IF method \notin {"GET", "POST"}
    THEN [response_size |-> 0, success |-> FALSE, error |-> "ValueError", sent |-> 0]
    ELSE IF Raises(o) \/ RaiseForStatus(o)
    THEN [response_size |-> 0, success |-> FALSE, error |-> ErrorText(o), sent |-> 1]
    ELSE [response_size |-> o.body, success |-> TRUE, error |-> NoError, sent |-> 1]

\* the health check with only the REST flag tested
HealthOk_RestOnly(r, g) == r

\* `if not rest_ok: return`, `if not graphql_ok: return`
HealthOk(r, g) == r /\ g

\* check_api_health
CheckApiHealth(o) == IF Raises(o) THEN FALSE ELSE o.status = 200

\* BenchmarkResult(...)
BenchmarkResult(api, n, rep, m) ==
    [api_type |-> Upper(api), scenario |-> n, replication |-> rep,
     response_size |-> m.response_size, success |-> m.success, error |-> m.error]

\* the loops with range(1, REPLICATIONS) for the replications
NextLeaf_ShortRange(a, n, rep) ==
    IF rep + 1 < REPLICATIONS THEN <<a, n, rep + 1>>
    ELSE IF n < NumScenarios THEN <<a, n + 1, 1>>
    ELSE IF a < Len(API_TYPES) THEN <<a + 1, 1, 1>>
    ELSE <<0, 0, 0>>

\* the loops with the scenario loop innermost
NextLeaf_ScenarioInner(a, n, rep) ==
    IF n < NumScenarios THEN <<a, n + 1, rep>>
    ELSE IF rep < REPLICATIONS THEN <<a, 1, rep + 1>>
    ELSE IF a < Len(API_TYPES) THEN <<a + 1, 1, 1>>
    ELSE <<0, 0, 0>>

\* the leaf after (a, n, rep) in the three nested for loops, <<0,0,0>> at the end
NextLeaf(a, n, rep) ==
    IF rep < REPLICATIONS THEN <<a, n, rep + 1>>
    ELSE IF n < NumScenarios THEN <<a, n + 1, 1>>
    ELSE IF a < Len(API_TYPES) THEN <<a + 1, 1, 1>>
    ELSE <<0, 0, 0>>

\* where run_benchmark is after a leaf, the exception of a failure escaping
AfterLeaf_FailureEscapes(m, nxt) ==
    IF ~m.success THEN "DONE"
    ELSE IF nxt[1] = 0 THEN "PERSIST" ELSE "MEASURING"

\* where run_benchmark is after a leaf: measure_request has caught every failure
AfterLeaf(m, nxt) == IF nxt[1] = 0 THEN "PERSIST" ELSE "MEASURING"

\* one row of the csv.DictWriter
Row(r) ==
    [api_type |-> r.api_type, scenario |-> r.scenario, replication |-> r.replication,
     response_size_bytes |-> r.response_size, success |-> r.success,
     error |-> IF r.error = NoError THEN "" ELSE r.error]

\* the writer loop over successful_results instead of results
Rows_OnlySuccessful(rs) ==
    LET ok == SelectSeq(rs, LAMBDA r : r.success)
    IN  [i \in 1..Len(ok) |-> Row(ok[i])]

Rows(rs) == [i \in 1..Len(rs) |-> Row(rs[i])]

\* open(RESULTS_FILE, 'w') and the writer loop: the file is replaced
WriteFile(fs, name, rows) ==
    [f \in DOMAIN fs \cup {name} |-> IF f = name THEN rows ELSE fs[f]]

Count(rs, ok) == Cardinality({i \in 1..Len(rs) : rs[i].success = ok})

NoSummary == [total |-> 0, successes |-> 0, failures |-> 0]

---------------------------------------------------------------------------
(* Initial state: the module is imported, run_benchmark is about to run *)

NoResult == [test_type |-> "none"]

BenchInit ==
    /\ phase = "INIT"
    /\ step = "none"
    /\ rest_ok = FALSE
    /\ graphql_ok = FALSE
    /\ warm_i = 0
    /\ api_idx = 0
    /\ scenario_num = 0
    /\ replication = 0
    /\ results = <<>>
    /\ summary = NoSummary
    /\ files = <<>>
    /\ clock = 0
    /\ RESULTS_FILE = Stamp(0)
    /\ wire = <<>>
    /\ healthProbes = 0
    /\ warmupProbes = 0
    /\ requests = 0
    /\ writes = 0
    /\ completed = <<>>
    /\ runs = 1
    /\ deviations = 0

StatIdle ==
    /\ st_pc = "idle"
    /\ rest_data = <<>>
    /\ graphql_data = <<>>
    /\ result = NoResult
    /\ tests_run = <<>>
    /\ shapiro_calls = <<>>

NoDataset == [readable |-> FALSE, columns |-> {}, rows |-> <<>>, exists |-> FALSE]
NoDocument == [written |-> FALSE]

\* no script of the analysis pipeline is running
AnIdle ==
    /\ stage = "none"
    /\ an_pc = "idle"
    /\ csv = NoDataset
    /\ df = <<>>
    /\ overall_results = <<>>
    /\ scenario_results = <<>>
    /\ document = NoDocument
    /\ outputs = {}
    /\ exit_status = -1
    /\ failed_at = "none"

\* analyze_overall is not running
RnIdle ==
    /\ rn_pc = "idle"
    /\ rn_rest = <<>>
    /\ rn_graphql = <<>>
    /\ np_random = [tape |-> <<0>>, pos |-> 1]
    /\ rn_lib = [rest_p |-> [kind |-> "none", v |-> 0],
                 graphql_p |-> [kind |-> "none", v |-> 0], raisesOnEmpty |-> FALSE]
    /\ rn_results = <<>>

\* no descriptor has been generated
DgIdle ==
    /\ dg_leaf = <<0, 0, 0>>
    /\ dg_drawn = <<>>
    /\ dg_odd = 0

\* run_sprint2 is not run
SpIdle ==
    /\ sp_pc = "idle"
    /\ sp_files = 0
    /\ sp_started = <<>>
    /\ sp_ended = <<>>
    /\ sp_status = -1

\* an empty results directory
PlIdle ==
    /\ pl_files = {}
    /\ pl_clock = 0
    /\ pl_stats = [exists |-> FALSE, source |-> 0]
    /\ pl_reports = <<>>
    /\ pl_analysing = 0
    /\ pl_reading = 0

Init == BenchInit /\ StatIdle /\ AnIdle /\ RnIdle /\ DgIdle /\ SpIdle /\ PlIdle

---------------------------------------------------------------------------
(* run_benchmark *)

\* the banner
Start ==
    /\ phase = "INIT"
    /\ phase' = "HEALTH_CHECK"
    /\ step' = "rest"
    /\ UNCHANGED <<rest_ok, graphql_ok, warm_i, api_idx, scenario_num, replication,
                   results, summary, files, RESULTS_FILE, clock, wire, healthProbes,
                   warmupProbes, requests, writes, completed, runs, deviations>>
    /\ UNCHANGED <<statVars, anVars, rnVars, dgVars, spVars, plVars>>

\* rest_ok = check_api_health('rest')
HealthRest ==
    /\ phase = "HEALTH_CHECK" /\ step = "rest"
    /\ \E o \in Outcomes :
          rest_ok' = CheckApiHealth(o)
    /\ healthProbes' = healthProbes + 1
    /\ step' = "graphql"
    /\ UNCHANGED <<phase, graphql_ok, warm_i, api_idx, scenario_num, replication,
                   results, summary, files, RESULTS_FILE, clock, wire,
                   warmupProbes, requests, writes, completed, runs, deviations>>
    /\ UNCHANGED <<statVars, anVars, rnVars, dgVars, spVars, plVars>>

\* graphql_ok = check_api_health('graphql')
HealthGraphql ==
    /\ phase = "HEALTH_CHECK" /\ step = "graphql"
    /\ \E o \in Outcomes :
          graphql_ok' = CheckApiHealth(o)
    /\ healthProbes' = healthProbes + 1
    /\ step' = "decide"
    /\ UNCHANGED <<phase, rest_ok, warm_i, api_idx, scenario_num, replication,
                   results, summary, files, RESULTS_FILE, clock, wire,
                   warmupProbes, requests, writes, completed, runs, deviations>>
    /\ UNCHANGED <<statVars, anVars, rnVars, dgVars, spVars, plVars>>

HealthPassed == HealthOk(rest_ok, graphql_ok)

\* the `return`s missing: a failed health check falls through to the warm-up
HealthAbort_FallsThrough ==
    /\ phase = "HEALTH_CHECK" /\ step = "decide"
    /\ ~HealthPassed
    /\ phase' = "WARMUP"
    /\ step' = "rest"
    /\ UNCHANGED <<rest_ok, graphql_ok, warm_i, api_idx, scenario_num, replication,
                   results, summary, files, RESULTS_FILE, clock, wire, healthProbes,
                   warmupProbes, requests, writes, completed, runs, deviations>>
    /\ UNCHANGED <<statVars, anVars, rnVars, dgVars, spVars, plVars>>

\* the two `return`s after the probes
HealthAbort ==
    /\ phase = "HEALTH_CHECK" /\ step = "decide"
    /\ ~HealthPassed
    /\ phase' = "DONE"
    /\ step' = "none"
    /\ UNCHANGED <<rest_ok, graphql_ok, warm_i, api_idx, scenario_num, replication,
                   results, summary, files, RESULTS_FILE, clock, wire, healthProbes,
                   warmupProbes, requests, writes, completed, runs, deviations>>
    /\ UNCHANGED <<statVars, anVars, rnVars, dgVars, spVars, plVars>>

\* both probes answered 200: makedirs, results = [], the progress bar
HealthPass ==
    /\ phase = "HEALTH_CHECK" /\ step = "decide"
    /\ HealthPassed
    /\ phase' = "WARMUP"
    /\ step' = "rest"
    /\ warm_i' = 0
    /\ results' = <<>>
    /\ UNCHANGED <<rest_ok, graphql_ok, api_idx, scenario_num, replication,
                   summary, files, RESULTS_FILE, clock, wire, healthProbes,
                   warmupProbes, requests, writes, completed, runs, deviations>>
    /\ UNCHANGED <<statVars, anVars, rnVars, dgVars, spVars, plVars>>

\* warm-up round without the try: an exception of the probe ends the run
WarmupRest_Escapes ==
    /\ phase = "WARMUP" /\ step = "rest"
    /\ \E o \in Outcomes :
          /\ Allowed(o)
          /\ deviations' = Deviate(o)
          /\ step' = IF Raises(o) THEN "none" ELSE "graphql"
          /\ phase' = IF Raises(o) THEN "DONE" ELSE phase
    /\ warmupProbes' = warmupProbes + 1
    /\ UNCHANGED <<rest_ok, graphql_ok, warm_i, api_idx, scenario_num,
                   replication, results, summary, files, RESULTS_FILE, clock, wire,
                   healthProbes, requests, writes, completed, runs>>
    /\ UNCHANGED <<statVars, anVars, rnVars, dgVars, spVars, plVars>>

\* warm-up round: requests.get(REST health); an exception skips the GraphQL probe
WarmupRest ==
    /\ phase = "WARMUP" /\ step = "rest"
    /\ \E o \in Outcomes :
          /\ Allowed(o)
          /\ deviations' = Deviate(o)
          /\ step' = IF Raises(o) THEN "sleep" ELSE "graphql"
    /\ warmupProbes' = warmupProbes + 1
    /\ UNCHANGED <<phase, rest_ok, graphql_ok, warm_i, api_idx, scenario_num,
                   replication, results, summary, files, RESULTS_FILE, clock, wire,
                   healthProbes, requests, writes, completed, runs>>
    /\ UNCHANGED <<statVars, anVars, rnVars, dgVars, spVars, plVars>>

\* warm-up round: requests.get(GraphQL health); an exception is swallowed
WarmupGraphql ==
    /\ phase = "WARMUP" /\ step = "graphql"
    /\ \E o \in Outcomes :
          /\ Allowed(o)
          /\ deviations' = Deviate(o)
    /\ step' = "sleep"
    /\ warmupProbes' = warmupProbes + 1
    /\ UNCHANGED <<phase, rest_ok, graphql_ok, warm_i, api_idx, scenario_num,
                   replication, results, summary, files, RESULTS_FILE, clock, wire,
                   healthProbes, requests, writes, completed, runs>>
    /\ UNCHANGED <<statVars, anVars, rnVars, dgVars, spVars, plVars>>

\* time.sleep(0.5), then the next round or the first leaf of the measurements
WarmupSleep ==
    /\ phase = "WARMUP" /\ step = "sleep"
    /\ clock' = clock + WARMUP_SLEEP
    /\ warm_i' = warm_i + 1
    /\ IF warm_i + 1 < WARMUP_ROUNDS
       THEN /\ step' = "rest"
            /\ UNCHANGED <<phase, api_idx, scenario_num, replication>>
       ELSE /\ phase' = "MEASURING"
            /\ step' = "none"
            /\ api_idx' = 1
            /\ scenario_num' = 1
            /\ replication' = 1
    /\ UNCHANGED <<rest_ok, graphql_ok, results, summary, files, RESULTS_FILE, wire,
                   healthProbes, warmupProbes, requests, writes, completed, runs,
                   deviations>>
    /\ UNCHANGED <<statVars, anVars, rnVars, dgVars, spVars, plVars>>

\* one leaf of the nested loops: descriptor, measure_request, append, sleep
Measure ==
    /\ phase = "MEASURING"
    /\ \E o \in Outcomes :
          LET api == API_TYPES[api_idx]
              m == MeasureRequest(ScenarioMethod(api, scenario_num), o)
              nxt == NextLeaf(api_idx, scenario_num, replication)
          IN  /\ Allowed(o)
              /\ deviations' = Deviate(o)
              /\ results' = Append(results,
                                   BenchmarkResult(api, scenario_num, replication, m))
              /\ wire' = Append(wire, o)
              /\ requests' = requests + m.sent
              /\ api_idx' = nxt[1]
              /\ scenario_num' = nxt[2]
              /\ replication' = nxt[3]
              /\ phase' = AfterLeaf(m, nxt)
    /\ clock' = clock + REQUEST_DELAY
    /\ UNCHANGED <<step, rest_ok, graphql_ok, warm_i, summary, files, RESULTS_FILE,
                   healthProbes, warmupProbes, writes, completed, runs>>
    /\ UNCHANGED <<statVars, anVars, rnVars, dgVars, spVars, plVars>>

\* with open(RESULTS_FILE, 'w'): header and one row per result
Persist ==
    /\ phase = "PERSIST"
    /\ files' = WriteFile(files, RESULTS_FILE, Rows(results))
    /\ writes' = writes + 1
    /\ completed' = Append(completed, <<RESULTS_FILE, Rows(results)>>)
    /\ phase' = "SUMMARY"
    /\ UNCHANGED <<step, rest_ok, graphql_ok, warm_i, api_idx, scenario_num,
                   replication, results, summary, RESULTS_FILE, clock, wire,
                   healthProbes, warmupProbes, requests, deviations, runs>>
    /\ UNCHANGED <<statVars, anVars, rnVars, dgVars, spVars, plVars>>

\* the summary block
Summary ==
    /\ phase = "SUMMARY"
    /\ summary' = [total |-> Len(results),
                   successes |-> Count(results, TRUE),
                   failures |-> Count(results, FALSE)]
    /\ phase' = "DONE"
    /\ UNCHANGED <<step, rest_ok, graphql_ok, warm_i, api_idx, scenario_num,
                   replication, results, files, RESULTS_FILE, clock, wire,
                   healthProbes, warmupProbes, requests, writes, completed, runs,
                   deviations>>
    /\ UNCHANGED <<statVars, anVars, rnVars, dgVars, spVars, plVars>>

\* what a new invocation of run_benchmark starts from
ResetRun ==
    /\ phase' = "INIT"
    /\ step' = "none"
    /\ rest_ok' = FALSE
    /\ graphql_ok' = FALSE
    /\ warm_i' = 0
    /\ api_idx' = 0
    /\ scenario_num' = 0
    /\ replication' = 0
    /\ results' = <<>>
    /\ summary' = NoSummary
    /\ wire' = <<>>
    /\ healthProbes' = 0
    /\ warmupProbes' = 0
    /\ requests' = 0
    /\ writes' = 0
    /\ runs' = runs + 1

\* run_benchmark() called once more by the process that imported the module
CallAgain ==
    /\ phase = "DONE"
    /\ runs < MaxRuns
    /\ ResetRun
    /\ UNCHANGED <<files, RESULTS_FILE, clock, completed, deviations>>
    /\ UNCHANGED <<statVars, anVars, rnVars, dgVars, spVars, plVars>>

\* a new process imports the module (RESULTS_FILE is set) and calls run_benchmark
NewProcess ==
    /\ phase = "DONE"
    /\ runs < MaxRuns
    /\ ResetRun
    /\ \E idle \in 0..MaxIdle :
          /\ clock' = clock + idle
          /\ RESULTS_FILE' = Stamp(clock + idle)
    /\ UNCHANGED <<files, completed, deviations>>
    /\ UNCHANGED <<statVars, anVars, rnVars, dgVars, spVars, plVars>>

Next ==
    \/ Start
    \/ HealthRest
    \/ HealthGraphql
    \/ HealthAbort
    \/ HealthPass
    \/ WarmupRest
    \/ WarmupGraphql
    \/ WarmupSleep
    \/ Measure
    \/ Persist
    \/ Summary

\* one invocation of run_benchmark in a fresh process
Spec == Init /\ [][Next]_vars

NextRepeat ==
    \/ Next
    \/ CallAgain
    \/ NewProcess

\* invocations following one another, in the same process or in a new one
SpecRepeat == Init /\ [][NextRepeat]_vars

---------------------------------------------------------------------------
(* Properties of run_benchmark *)

\* the run went past the health check with both probes answered 200
Passed == rest_ok /\ graphql_ok

\* the k-th leaf of the iteration, in lexicographic order of
\* (api_kind, scenario, replication) with REST before GRAPHQL
LeafAt(k) ==
    <<IF (k - 1) \div (6 * REPLICATIONS) = 0 THEN "REST" ELSE "GRAPHQL",
      (((k - 1) % (6 * REPLICATIONS)) \div REPLICATIONS) + 1,
      ((k - 1) % REPLICATIONS) + 1>>

Triple(r) == <<r.api_type, r.scenario, r.replication>>

\* a transport error, a timeout or an HTTP error status
Fails(o) == o.kind # "response" \/ o.status >= 400

\* C1: a run that passes the health check and completes holds exactly
\* 2 x 6 x R records, one for each (api_kind, scenario, replication) triple,
\* whatever the outcome of each measurement.
Thm_C1 ==
    (phase \in {"PERSIST", "SUMMARY", "DONE"} /\ Passed) =>
        /\ Len(results) = 2 * 6 * REPLICATIONS
        /\ \A a \in {"REST", "GRAPHQL"} : \A n \in 1..6 : \A rep \in 1..REPLICATIONS :
              Cardinality({i \in 1..Len(results) : Triple(results[i]) = <<a, n, rep>>}) = 1

\* a completed run one of whose measurements failed
Wit_C1 ==
    /\ phase = "DONE" /\ Passed
    /\ \E i \in 1..Len(results) : ~results[i].success

\* C2: when the health probe of either API kind fails, the run ends with no
\* warm-up probe, no measurement request, no record and no dataset file.
Thm_C2 ==
    (/\ phase \notin {"INIT"}
     /\ ~(phase = "HEALTH_CHECK" /\ step \in {"rest", "graphql"})
     /\ ~(rest_ok /\ graphql_ok)) =>
        /\ phase \in {"HEALTH_CHECK", "DONE"}
        /\ warmupProbes = 0
        /\ requests = 0
        /\ results = <<>>
        /\ writes = 0
        /\ DOMAIN files = {}

\* a run ended by a failed GraphQL probe after the REST probe succeeded
Wit_C2 ==
    /\ phase = "DONE"
    /\ rest_ok /\ ~graphql_ok
    /\ healthProbes = 2

Thm_C4 ==
    /\ Len(wire) = Len(results)
    /\ \A i \in 1..Len(results) :
          /\ ~results[i].success => results[i].response_size = 0
          /\ results[i].response_size = 0 =>
                (~results[i].success \/ wire[i].body = 0)
          /\ (wire[i].kind = "response" /\ wire[i].status >= 400 /\ wire[i].body > 0) =>
                (~results[i].success /\ results[i].response_size = 0)
          /\ results[i].success => results[i].response_size = wire[i].body

\* an error status that came with a body
Wit_C4 ==
    \E i \in 1..Len(results) :
        /\ wire[i].kind = "response" /\ wire[i].status = 500 /\ wire[i].body > 0
        /\ results[i].response_size = 0

PhaseOrder ==
    <<"INIT", "HEALTH_CHECK", "WARMUP", "MEASURING", "PERSIST", "SUMMARY", "DONE">>

PhaseNo(p) == CHOOSE k \in 1..Len(PhaseOrder) : PhaseOrder[k] = p

\* C5: a run changes phase only to the next phase of INIT, HEALTH_CHECK,
\* WARMUP, MEASURING, PERSIST, SUMMARY, DONE, except that a failed health check
\* goes from HEALTH_CHECK to DONE.
Thm_C5 ==
    [][phase' # phase =>
         \/ /\ PhaseNo(phase') = PhaseNo(phase) + 1
            /\ phase = "HEALTH_CHECK" => (rest_ok /\ graphql_ok)
         \/ /\ phase = "HEALTH_CHECK" /\ phase' = "DONE"
            /\ ~(rest_ok /\ graphql_ok)]_vars

\* a run that went through every phase
Wit_C5 ==
    /\ phase = "DONE" /\ Passed
    /\ writes = 1
    /\ summary.total = Len(results) /\ summary.total > 0

\* C6: the records are in execution order, which is lexicographic in
\* (api_kind, scenario, replication), REST before GRAPHQL: the k-th record
\* is that of the k-th leaf and of the k-th exchange.
Thm_C6 ==
    /\ Len(wire) = Len(results)
    /\ \A k \in 1..Len(results) : Triple(results[k]) = LeafAt(k)
    /\ \A i, j \in 1..Len(results) :
          (results[i].api_type = "GRAPHQL" /\ results[j].api_type = "REST") => j < i

\* a complete sequence, from the first REST leaf to the last GRAPHQL leaf
Wit_C6 ==
    /\ Len(results) = 2 * 6 * REPLICATIONS
    /\ Triple(results[1]) = <<"REST", 1, 1>>
    /\ Triple(results[REPLICATIONS + 1]) = <<"REST", 2, 1>>
    /\ Triple(results[Len(results)]) = <<"GRAPHQL", 6, REPLICATIONS>>

Orig_C8 ==
    \A i, j \in 1..Len(completed) :
        i < j =>
            /\ completed[i][1] # completed[j][1]
            /\ completed[i][1] \in DOMAIN files
            /\ files[completed[i][1]] = completed[i][2]

\* C9: the warm-up issues exactly 10 liveness probes in total and appends no
\* record: the record sequence is empty up to the start of MEASURING.
Orig_C9 ==
    /\ (phase \in {"MEASURING", "PERSIST", "SUMMARY", "DONE"} /\ Passed) =>
          warmupProbes = 10
    /\ (phase \in {"INIT", "HEALTH_CHECK", "WARMUP"}
        \/ (phase = "MEASURING" /\ requests = 0)) => results = <<>>

---------------------------------------------------------------------------
(* statistical_analysis.py: perform_statistical_tests                       *)
(* p-values are counted in thousandths.  Means, variances and differences   *)
(* are exact fractions n/d with d > 0, or nan; a standard deviation is kept  *)
(* as the variance it is the square root of.  The medians, the test         *)
(* statistic, the test p-value and the bootstrap interval of the result are *)
(* not modelled.                                                            *)

None == [kind |-> "none", v |-> 0]
NaN == [kind |-> "nan", v |-> 0]
Num(x) == [kind |-> "num", v |-> x]

\* what stats.shapiro can answer for a sample: a p-value, or nan
ShapiroP == {Num(0), Num(Alpha), Num(Alpha + 1), Num(1000), NaN}

Samples == UNION {[1..n -> 0..MaxValue] : n \in 0..MaxSample}

\* test_normality with the guard `len(data) < 2`
TestNormality_Min2(data, p) == IF Len(data) < MinShapiro - 1 THEN None ELSE p

\* test_normality: the p-value (the statistic is not modelled)
TestNormality(data, p) == IF Len(data) < MinShapiro THEN None ELSE p

\* test_normality: what it hands to stats.shapiro, if anything
ShapiroInput(data) ==
    IF TestNormality(data, NaN) = None THEN <<>>
    ELSE IF Len(data) > ShapiroCap THEN <<SubSeq(data, 1, ShapiroCap)>>
    ELSE <<data>>

\* truth value of a float or None in `x if p else y`
Truthy(p) == p.kind = "nan" \/ (p.kind = "num" /\ p.v # 0)

\* p > 0.05 on floats: false when p is nan
GreaterAlpha(p) == p.kind = "num" /\ p.v > Alpha

\* `p > 0.05 if p else False`
IsNormal(p) == IF Truthy(p) THEN GreaterAlpha(p) ELSE FALSE

\* the test chosen when either sample is normal
ChooseTest_Either(rest_normal, graphql_normal) ==
    IF rest_normal \/ graphql_normal THEN "t-test (Welch)" ELSE "Mann-Whitney U"

\* `both_normal = ...; if both_normal: ... else: ...`
ChooseTest(rest_normal, graphql_normal) ==
    IF rest_normal /\ graphql_normal THEN "t-test (Welch)" ELSE "Mann-Whitney U"

\* a float: the fraction n/d, or nan
Rat(n, d) == [kind |-> "rat", n |-> n, d |-> d]
FNaN == [kind |-> "nan", n |-> 0, d |-> 1]

RECURSIVE Sum(_)
Sum(s) == IF s = <<>> THEN 0 ELSE Head(s) + Sum(Tail(s))

RECURSIVE SumSq(_)
SumSq(s) == IF s = <<>> THEN 0 ELSE Head(s) * Head(s) + SumSq(Tail(s))

\* np.mean: nan for an empty sample
Mean(s) == IF Len(s) = 0 THEN FNaN ELSE Rat(Sum(s), Len(s))

\* np.var(s, ddof=1): nan when there are fewer than 2 observations
Var(s) == IF Len(s) < 2 THEN FNaN
          ELSE Rat(Len(s) * SumSq(s) - Sum(s) * Sum(s), Len(s) * (Len(s) - 1))

\* a + b and a - b on floats
Add(a, b) == IF a.kind = "nan" \/ b.kind = "nan" THEN FNaN
             ELSE Rat(a.n * b.d + b.n * a.d, a.d * b.d)
Sub(a, b) == IF a.kind = "nan" \/ b.kind = "nan" THEN FNaN
             ELSE Rat(a.n * b.d - b.n * a.d, a.d * b.d)
Half(a) == IF a.kind = "nan" THEN FNaN ELSE Rat(a.n, 2 * a.d)

\* x > 0 on a float: false for nan
Positive(x) == x.kind = "rat" /\ x.n > 0

\* the difference taken as REST - GraphQL
MeanDifference_Swapped(rest, gql) == Sub(Mean(rest), Mean(gql))

\* np.mean(graphql_data) - np.mean(rest_data)
MeanDifference(rest, gql) == Sub(Mean(gql), Mean(rest))

\* the square of pooled_std: (var(rest) + var(graphql)) / 2
PooledVar(rest, gql) == Half(Add(Var(rest), Var(gql)))

\* the literal 0 of the else branch
EffectZero == [kind |-> "literal0", num |-> Rat(0, 1), den_sq |-> Rat(1, 1)]

\* the effect size without the test of pooled_std
EffectSize_NoGuard(rest, gql) ==
    [kind |-> "quotient", num |-> MeanDifference(rest, gql),
     den_sq |-> PooledVar(rest, gql)]

\* `if pooled_std > 0: cohens_d = diff / pooled_std else: 0`: the quotient
\* num / sqrt(den_sq), or the literal 0
EffectSize(rest, gql) ==
    IF Positive(PooledVar(rest, gql))
    THEN [kind |-> "quotient", num |-> MeanDifference(rest, gql),
          den_sq |-> PooledVar(rest, gql)]
    ELSE EffectZero

\* the result dict, with the shapiro answers pR and pG
StatisticalTests(rest, gql, metric, pR, pG) ==
    LET rest_p == TestNormality(rest, pR)
        graphql_p == TestNormality(gql, pG)
        rest_normal == IsNormal(rest_p)
        graphql_normal == IsNormal(graphql_p)
    IN  [metric |-> metric,
         rest_mean |-> Mean(rest),
         graphql_mean |-> Mean(gql),
         rest_std |-> [sqrt_of |-> Var(rest)],
         graphql_std |-> [sqrt_of |-> Var(gql)],
         rest_n |-> Len(rest),
         graphql_n |-> Len(gql),
         mean_difference |-> MeanDifference(rest, gql),
         effect_size |-> EffectSize(rest, gql),
         rest_normal |-> rest_normal,
         graphql_normal |-> graphql_normal,
         rest_shapiro_p |-> rest_p,
         graphql_shapiro_p |-> graphql_p,
         test_type |-> ChooseTest(rest_normal, graphql_normal)]

\* one call of perform_statistical_tests.  stats.mannwhitneyu on an empty
\* sample raises ValueError or answers nan, depending on the scipy installed.
PerformStatisticalTests ==
    /\ st_pc = "call"
    /\ \E pR \in ShapiroP, pG \in ShapiroP, raisesOnEmpty \in BOOLEAN :
          LET r == StatisticalTests(rest_data, graphql_data, "response_time_ms", pR, pG)
          IN  /\ tests_run' = Append(tests_run, r.test_type)
              /\ shapiro_calls' = shapiro_calls \o ShapiroInput(rest_data)
                                                \o ShapiroInput(graphql_data)
              /\ IF /\ r.test_type = "Mann-Whitney U"
                    /\ (rest_data = <<>> \/ graphql_data = <<>>)
                    /\ raisesOnEmpty
                 THEN /\ st_pc' = "raised"
                      /\ result' = NoResult
                 ELSE /\ st_pc' = "returned"
                      /\ result' = r
    /\ UNCHANGED <<rest_data, graphql_data>>
    /\ UNCHANGED <<benchVars, anVars, rnVars, dgVars, spVars, plVars>>

\* the two samples of response times of the end-to-end scenario
ScenarioRest == <<100, 102, 98, 101, 99, 100, 103, 97, 100, 101>>
ScenarioGraphql == <<80, 82, 78, 81, 79, 80, 83, 77, 80, 81>>

StatInit ==
    /\ BenchInit
    /\ st_pc = "call"
    /\ \/ rest_data \in Samples /\ graphql_data \in Samples
       \/ rest_data = ScenarioRest /\ graphql_data = ScenarioGraphql
    /\ result = NoResult
    /\ tests_run = <<>>
    /\ shapiro_calls = <<>>
    /\ AnIdle
    /\ RnIdle
    /\ DgIdle
    /\ SpIdle
    /\ PlIdle

StatNext == PerformStatisticalTests

\* perform_statistical_tests applied to every pair of samples
SpecStats == StatInit /\ [][StatNext]_vars

---------------------------------------------------------------------------
(* Properties of perform_statistical_tests *)

\* C10: the test is chosen by the two normality flags alone: Welch exactly
\* when both flags are true, Mann-Whitney U otherwise, and that one test is
\* the only one run and recorded.
Thm_C10 ==
    /\ st_pc = "returned" =>
          /\ (result.test_type = "t-test (Welch)")
                <=> (result.rest_normal /\ result.graphql_normal)
          /\ (result.test_type = "Mann-Whitney U")
                <=> ~(result.rest_normal /\ result.graphql_normal)
          /\ tests_run = <<result.test_type>>
    /\ st_pc = "raised" => tests_run = <<"Mann-Whitney U">>

\* one sample normal, the other tested and found not normal
Wit_C10 ==
    /\ st_pc = "returned"
    /\ Len(rest_data) >= 3 /\ Len(graphql_data) >= 3
    /\ result.rest_normal /\ ~result.graphql_normal
    /\ result.test_type = "Mann-Whitney U"

\* C11: a sample of fewer than 3 observations is never handed to the
\* normality test and is flagged non-normal, so Mann-Whitney U is selected
\* whenever a side has 1 or 2 observations; a sample of 3 or more is flagged
\* normal exactly when its normality p-value exceeds 0.05.
Thm_C11 ==
    /\ \A i \in 1..Len(shapiro_calls) : Len(shapiro_calls[i]) >= 3
    /\ st_pc \in {"returned", "raised"} =>
          Len(shapiro_calls) = Cardinality({d \in {1, 2} :
                Len(IF d = 1 THEN rest_data ELSE graphql_data) >= 3})
    /\ st_pc = "returned" =>
          /\ Len(rest_data) < 3 =>
                (~result.rest_normal /\ result.rest_shapiro_p.kind = "none")
          /\ Len(graphql_data) < 3 =>
                (~result.graphql_normal /\ result.graphql_shapiro_p.kind = "none")
          /\ (Len(rest_data) \in {1, 2} \/ Len(graphql_data) \in {1, 2}) =>
                result.test_type = "Mann-Whitney U"
          /\ Len(rest_data) >= 3 =>
                (result.rest_normal <=>
                    (result.rest_shapiro_p.kind = "num" /\ result.rest_shapiro_p.v > 50))
          /\ Len(graphql_data) >= 3 =>
                (result.graphql_normal <=>
                    (result.graphql_shapiro_p.kind = "num"
                     /\ result.graphql_shapiro_p.v > 50))

\* two observations on one side, three normal ones on the other
Wit_C11 ==
    /\ st_pc = "returned"
    /\ Len(rest_data) = 2 /\ Len(graphql_data) = 3
    /\ result.graphql_normal /\ ~result.rest_normal
    /\ shapiro_calls = <<graphql_data>>
    /\ result.test_type = "Mann-Whitney U"

\* all observations of s are the same
Constant(s) == \A i, j \in 1..Len(s) : s[i] = s[j]

\* the value of an effect size is 0
EffectIsZero(e) == e.kind = "literal0" \/ (e.kind = "quotient" /\ e.num.kind = "rat"
                                           /\ e.num.n = 0 /\ e.den_sq.n > 0)

\* the sign of a fraction
Sign(x) == IF x.n > 0 THEN 1 ELSE IF x.n < 0 THEN -1 ELSE 0

\* C14: for identical constant samples the effect size is exactly 0 and no
\* division by the zero pooled standard deviation takes place.
Thm_C14 ==
    (/\ st_pc = "returned"
     /\ rest_data # <<>> /\ rest_data = graphql_data /\ Constant(rest_data)) =>
        /\ EffectIsZero(result.effect_size)
        /\ result.effect_size.kind = "literal0"
        /\ result.mean_difference.kind = "rat" /\ result.mean_difference.n = 0

\* two identical constant samples of three observations
Wit_C14 ==
    /\ st_pc = "returned"
    /\ rest_data = <<1, 1, 1>> /\ graphql_data = <<1, 1, 1>>
    /\ result.effect_size.kind = "literal0"

\* the pooled standard deviation of the two samples is exactly zero
PooledZero == /\ Len(rest_data) >= 2 /\ Len(graphql_data) >= 2
              /\ Constant(rest_data) /\ Constant(graphql_data)

\* C15: whenever the pooled standard deviation is exactly zero the effect
\* size is 0, the samples are constant and equal to each other and the mean
\* difference is 0: the 0 of that branch never goes with a non-zero mean
\* difference.
Orig_C15 ==
    st_pc = "returned" =>
        /\ PooledZero =>
              /\ EffectIsZero(result.effect_size)
              /\ rest_data[1] = graphql_data[1]
              /\ result.mean_difference.n = 0
        /\ (result.effect_size.kind = "literal0"
            /\ result.mean_difference.kind = "rat") =>
              result.mean_difference.n = 0

RECURSIVE Total(_)
Total(s) == IF s = <<>> THEN 0 ELSE s[Len(s)] + Total(SubSeq(s, 1, Len(s) - 1))

\* C16: mean_difference is mean(GraphQL) - mean(REST) for non-empty samples;
\* with a positive pooled standard deviation the effect size has the sign of
\* mean_difference; for the samples of the end-to-end scenario the
\* difference is -20 and the effect size negative.
Thm_C16 ==
    (st_pc = "returned" /\ rest_data # <<>> /\ graphql_data # <<>>) =>
        /\ result.mean_difference.kind = "rat"
        /\ result.mean_difference.n * (Len(rest_data) * Len(graphql_data))
              = (Total(graphql_data) * Len(rest_data)
                 - Total(rest_data) * Len(graphql_data)) * result.mean_difference.d
        /\ (/\ Len(rest_data) >= 2 /\ Len(graphql_data) >= 2
            /\ ~(Constant(rest_data) /\ Constant(graphql_data))) =>
              /\ result.effect_size.kind = "quotient"
              /\ result.effect_size.den_sq.n > 0
              /\ Sign(result.effect_size.num) = Sign(result.mean_difference)
              /\ Sign(result.effect_size.num)
                    = Sign(Rat(Total(graphql_data) * Len(rest_data)
                               - Total(rest_data) * Len(graphql_data), 1))
        /\ (rest_data = ScenarioRest /\ graphql_data = ScenarioGraphql) =>
              /\ result.mean_difference.n = -20 * result.mean_difference.d
              /\ result.effect_size.kind = "quotient"
              /\ result.effect_size.num.n < 0

\* the result for the samples of the end-to-end scenario
Wit_C16 ==
    /\ st_pc = "returned"
    /\ rest_data = ScenarioRest /\ graphql_data = ScenarioGraphql
    /\ result.rest_n = 10 /\ result.graphql_n = 10
    /\ result.effect_size.kind = "quotient"

----------------------------------------------------------------------------
(* statistical_analysis.py: main, analyze_overall, analyze_by_scenario and  *)
(* save_results.                                                            *)
(*                                                                          *)
(* A dataset is a CSV file: whether pd.read_csv can read it, the columns of *)
(* its header and its records.  A record is drawn with one number v: it     *)
(* took v ms and carried MaxValue - v bytes.  The records come in the order *)
(* the benchmark writes them (API kind, then scenario).  stats.shapiro      *)
(* answers one p-value for each API kind and metric of an invocation.       *)
(* analyze_results.py, create_dashboard.py and generate_report.py are       *)
(* followed only where they find no dataset.                                *)

\* the scripts that read a dataset
Stages == {"statistical_analysis", "analyze_results", "create_dashboard",
           "generate_report"}

\* the header run_benchmark writes
Columns == {"timestamp", "api_type", "scenario", "replication", "response_time_ms",
            "response_size_bytes", "success", "error"}

\* the API kinds as the dataset spells them
ApiKinds == {Upper(API_TYPES[i]) : i \in 1..Len(API_TYPES)}

\* one record of a dataset (the columns the analysis never reads are left out)
DataRow(api, n, ok, v) ==
    [api_type |-> api, scenario |-> n, success |-> ok,
     response_time_ms |-> v, response_size_bytes |-> MaxValue - v]

RowKinds == {DataRow(api, n, ok, v) : api \in ApiKinds, n \in 1..NumScenarios,
                                      ok \in BOOLEAN, v \in 0..MaxValue}

\* position of a record in the order of the benchmark's loops
RowRank(r) == (IF r.api_type = Upper(API_TYPES[1]) THEN 0 ELSE NumScenarios) + r.scenario

\* the record lists of at most MaxRows records
RowLists ==
    {d \in UNION {[1..n -> RowKinds] : n \in 0..MaxRows} :
        \A i \in 1..(Len(d) - 1) : RowRank(d[i]) <= RowRank(d[i + 1])}

\* a readable file with the whole header
WellFormed == {[readable |-> TRUE, columns |-> Columns, rows |-> d, exists |-> TRUE] :
                  d \in RowLists}

\* a file pd.read_csv raises on
Unreadable == [readable |-> FALSE, columns |-> {}, rows |-> <<>>, exists |-> TRUE]

\* a readable file of successful records with one column missing
LackingColumn ==
    {[readable |-> TRUE, columns |-> Columns \ {c}, rows |-> d, exists |-> TRUE] :
        c \in Columns,
        d \in {e \in RowLists : \A i \in 1..Len(e) :
                                   e[i].success /\ e[i].response_time_ms = 0}}

\* the rows of every record selected without regard to success
IsSuccess_Any(r) == TRUE

\* df['success'] == True
IsSuccess(r) == r.success = TRUE

\* df[df['success'] == True]
Successful(d) == SelectSeq(d, IsSuccess)

\* the pooled sample without the records of a scenario in which the other
\* API kind has no successful record
OverallSample_Paired(d, api, col) ==
    LET sel == SelectSeq(d, LAMBDA r :
                   /\ r.api_type = api /\ IsSuccess(r)
                   /\ \E j \in 1..Len(d) : /\ d[j].api_type # api
                                            /\ d[j].scenario = r.scenario
                                            /\ IsSuccess(d[j]))
    IN  [i \in 1..Len(sel) |-> sel[i][col]]

\* df[(df['api_type'] == api) & (df['success'] == True)][col].values
OverallSample(d, api, col) ==
    LET sel == SelectSeq(d, LAMBDA r : r.api_type = api /\ IsSuccess(r))
    IN  [i \in 1..Len(sel) |-> sel[i][col]]

\* the sample of a scenario without the values that are 0
ScenarioSample_NoZero(d, api, n, col) ==
    LET sel == SelectSeq(d, LAMBDA r : /\ r.api_type = api /\ r.scenario = n
                                       /\ IsSuccess(r) /\ r[col] # 0)
    IN  [i \in 1..Len(sel) |-> sel[i][col]]

\* df[(df['api_type'] == api) & (df['scenario'] == n) & (df['success'] == True)][col].values
ScenarioSample(d, api, n, col) ==
    LET sel == SelectSeq(d, LAMBDA r : r.api_type = api /\ r.scenario = n /\ IsSuccess(r))
    IN  [i \in 1..Len(sel) |-> sel[i][col]]

\* the answers of stats.shapiro of an invocation: None where no sample of
\* the frame is long enough to be handed to it
ShapiroDraws(d, api, col) ==
    IF TestNormality(OverallSample(d, api, col), NaN) = None THEN {None} ELSE ShapiroP

\* stats.mannwhitneyu raises ValueError on an empty sample (raisesOnEmpty) or
\* answers nan
MannWhitneyRaises(r, rest, gql, raisesOnEmpty) ==
    /\ r.test_type = "Mann-Whitney U"
    /\ (rest = <<>> \/ gql = <<>>)
    /\ raisesOnEmpty

\* one comparison of the frame d: the metric col of the two API kinds
OverallTests(d, col, p) ==
    StatisticalTests(OverallSample(d, "REST", col), OverallSample(d, "GRAPHQL", col),
                     col, p.rest[col], p.graphql[col])

\* analyze_overall raises in one of its two calls
OverallRaises(d, p, raisesOnEmpty) ==
    \E col \in {"response_time_ms", "response_size_bytes"} :
        MannWhitneyRaises(OverallTests(d, col, p), OverallSample(d, "REST", col),
                          OverallSample(d, "GRAPHQL", col), raisesOnEmpty)

\* the dict analyze_overall returns
AnalyzeOverall(d, p) ==
    [overall_time |-> OverallTests(d, "response_time_ms", p),
     overall_size |-> OverallTests(d, "response_size_bytes", p)]

\* f'scenario_{scenario}_time' and f'scenario_{scenario}_size'
TimeKey(n) == "scenario_" \o ToString(n) \o "_time"
SizeKey(n) == "scenario_" \o ToString(n) \o "_size"

\* `len(rest_data) > 0 or len(graphql_data) > 0`
Computable_Either(d, n) ==
    \/ ScenarioSample(d, "REST", n, "response_time_ms") # <<>>
    \/ ScenarioSample(d, "GRAPHQL", n, "response_time_ms") # <<>>

\* `if len(rest_data) > 0 and len(graphql_data) > 0`
Computable(d, n) ==
    /\ ScenarioSample(d, "REST", n, "response_time_ms") # <<>>
    /\ ScenarioSample(d, "GRAPHQL", n, "response_time_ms") # <<>>

\* one comparison of scenario n
ScenarioTests(d, n, col, p) ==
    StatisticalTests(ScenarioSample(d, "REST", n, col), ScenarioSample(d, "GRAPHQL", n, col),
                     col, p.rest[col], p.graphql[col])

\* the dict analyze_by_scenario returns: `for scenario in range(1, 7)`
AnalyzeByScenario(d, p) ==
    LET present == {n \in 1..NumScenarios : Computable(d, n)}
        keys == {TimeKey(n) : n \in present} \cup {SizeKey(n) : n \in present}
    IN  [k \in keys |->
            LET n == CHOOSE m \in present : k \in {TimeKey(m), SizeKey(m)}
            IN  IF k = TimeKey(n) THEN ScenarioTests(d, n, "response_time_ms", p)
                ELSE ScenarioTests(d, n, "response_size_bytes", p)]

\* the document of save_results with the two dicts under one key
AllResults_Flat(overall, by_scenario) ==
    [written |-> TRUE, content |-> [results |-> <<overall, by_scenario>>]]

\* all_results of save_results, dumped to output_file
AllResults(overall, by_scenario) ==
    [written |-> TRUE, content |-> [overall |-> overall, by_scenario |-> by_scenario]]

\* a frame that answers every column
ColumnMissing_Never(columns, needed) == FALSE

\* df[col] raises KeyError for a column the file does not have
ColumnMissing(columns, needed) == needed \ columns # {}

\* the process ends with `status`
Exit(status, where) ==
    /\ an_pc' = "exited"
    /\ exit_status' = status
    /\ failed_at' = where

\* the status a script ends with when find_latest_results returns None:
\* sys.exit(1) in three mains; generate_report.py's main prints and returns
StatusWithoutDataset(script) == IF script = "generate_report" THEN 0 ELSE 1

\* no path on the command line and no benchmark_results_*.csv in results/
NoDatasetFound ==
    /\ an_pc = "main"
    /\ ~csv.exists
    /\ Exit(StatusWithoutDataset(stage), "find_latest_results")
    /\ UNCHANGED <<stage, csv, df, overall_results, scenario_results, document, outputs>>
    /\ UNCHANGED <<benchVars, statVars, rnVars, dgVars, spVars, plVars>>

\* main up to df_success: pd.read_csv in its try, then the filter; a column
\* that is not there raises KeyError, which nothing catches
LoadDataset ==
    /\ stage = "statistical_analysis"
    /\ an_pc = "main"
    /\ csv.exists
    /\ IF ~csv.readable
       THEN Exit(1, "read_csv") /\ df' = df
       ELSE IF ColumnMissing(csv.columns, {"success"})
       THEN Exit(1, "filter") /\ df' = df
       ELSE /\ an_pc' = "loaded"
            /\ df' = Successful(csv.rows)
            /\ UNCHANGED <<exit_status, failed_at>>
    /\ UNCHANGED <<stage, csv, overall_results, scenario_results, document, outputs>>
    /\ UNCHANGED <<benchVars, statVars, rnVars, dgVars, spVars, plVars>>

\* analyze_overall, analyze_by_scenario and print_results
Analyze ==
    /\ an_pc = "loaded"
    /\ \E pRt \in ShapiroDraws(df, "REST", "response_time_ms"),
          pRs \in ShapiroDraws(df, "REST", "response_size_bytes"),
          pGt \in ShapiroDraws(df, "GRAPHQL", "response_time_ms"),
          pGs \in ShapiroDraws(df, "GRAPHQL", "response_size_bytes"),
          raisesOnEmpty \in BOOLEAN :
          LET p == [rest |-> [response_time_ms |-> pRt, response_size_bytes |-> pRs],
                    graphql |-> [response_time_ms |-> pGt, response_size_bytes |-> pGs]]
          IN  IF ColumnMissing(csv.columns,
                               {"api_type", "response_time_ms", "response_size_bytes"})
              THEN /\ Exit(1, "analyze_overall")
                   /\ UNCHANGED <<overall_results, scenario_results>>
              ELSE IF OverallRaises(df, p, raisesOnEmpty)
              THEN /\ Exit(1, "analyze_overall")
                   /\ UNCHANGED <<overall_results, scenario_results>>
              ELSE IF ColumnMissing(csv.columns, {"scenario"})
              THEN /\ Exit(1, "analyze_by_scenario")
                   /\ overall_results' = AnalyzeOverall(df, p)
                   /\ UNCHANGED scenario_results
              ELSE /\ an_pc' = "analysed"
                   /\ overall_results' = AnalyzeOverall(df, p)
                   /\ scenario_results' = AnalyzeByScenario(df, p)
                   /\ UNCHANGED <<exit_status, failed_at>>
    /\ UNCHANGED <<stage, csv, df, document, outputs>>
    /\ UNCHANGED <<benchVars, statVars, rnVars, dgVars, spVars, plVars>>

\* save_results, and the end of main
SaveResults ==
    /\ an_pc = "analysed"
    /\ document' = AllResults(overall_results, scenario_results)
    /\ outputs' = outputs \cup {"statistical_results.json"}
    /\ an_pc' = "exited"
    /\ exit_status' = 0
    /\ UNCHANGED <<stage, csv, df, overall_results, scenario_results, failed_at>>
    /\ UNCHANGED <<benchVars, statVars, rnVars, dgVars, spVars, plVars>>

\* `python scripts/statistical_analysis.py <dataset>`, or one of the scripts
\* started without a path in an empty results directory
AnalysisInit ==
    /\ BenchInit
    /\ StatIdle
    /\ an_pc = "main"
    /\ \/ /\ stage = "statistical_analysis"
          /\ csv \in WellFormed \cup {Unreadable} \cup LackingColumn
       \/ /\ stage \in Stages
          /\ csv = NoDataset
    /\ df = <<>>
    /\ overall_results = <<>>
    /\ scenario_results = <<>>
    /\ document = NoDocument
    /\ outputs = {}
    /\ exit_status = -1
    /\ failed_at = "none"
    /\ RnIdle
    /\ DgIdle
    /\ SpIdle
    /\ PlIdle

AnalysisNext == NoDatasetFound \/ LoadDataset \/ Analyze \/ SaveResults

SpecAnalysis == AnalysisInit /\ [][AnalysisNext]_vars

\* the statistical analysis has ended with a document written
Written == stage = "statistical_analysis" /\ an_pc = "exited" /\ document.written

\* the successful records of the dataset of one API kind and scenario
OkRecords(api, n) ==
    {i \in 1..Len(csv.rows) : /\ csv.rows[i].api_type = api
                              /\ csv.rows[i].scenario = n
                              /\ csv.rows[i].success}

\* C12: a scenario in which REST or GraphQL has no successful record has
\* neither scenario_<n>_time nor scenario_<n>_size in by_scenario, and every
\* key present maps to a result with rest_n >= 1 and graphql_n >= 1.
Thm_C12 ==
    Written =>
        LET by == document.content.by_scenario
        IN  /\ \A n \in 1..NumScenarios :
                  (OkRecords("REST", n) = {} \/ OkRecords("GRAPHQL", n) = {}) =>
                      /\ TimeKey(n) \notin DOMAIN by
                      /\ SizeKey(n) \notin DOMAIN by
            /\ \A k \in DOMAIN by : by[k].rest_n >= 1 /\ by[k].graphql_n >= 1

\* a document without the keys of a scenario whose only GraphQL record failed
Wit_C12 ==
    /\ Written
    /\ \E n \in 1..NumScenarios :
          /\ OkRecords("REST", n) # {} /\ OkRecords("GRAPHQL", n) = {}
          /\ \E i \in 1..Len(csv.rows) :
                /\ csv.rows[i].api_type = "GRAPHQL" /\ csv.rows[i].scenario = n
                /\ ~csv.rows[i].success
          /\ TimeKey(n) \notin DOMAIN document.content.by_scenario
          /\ SizeKey(n) \notin DOMAIN document.content.by_scenario

\* the statistical analysis has ended
Ended == stage = "statistical_analysis" /\ an_pc = "exited"

\* the successful records of the dataset of one API kind
OkOverall(api) ==
    {i \in 1..Len(csv.rows) : csv.rows[i].api_type = api /\ csv.rows[i].success}

\* C13: for every well-formed dataset, also one in which an API kind has no
\* successful record, the analysis runs to completion, omits each affected
\* comparison from the document and writes the document.
Orig_C13 ==
    (Ended /\ csv.readable /\ csv.columns = Columns) =>
        /\ exit_status = 0
        /\ document.written
        /\ (OkOverall("REST") = {} \/ OkOverall("GRAPHQL") = {}) =>
              /\ "overall_time" \notin DOMAIN document.content.overall
              /\ "overall_size" \notin DOMAIN document.content.overall

\* the keys by_scenario may have
ScenarioKeys ==
    {"scenario_1_time", "scenario_2_time", "scenario_3_time", "scenario_4_time",
     "scenario_5_time", "scenario_6_time", "scenario_1_size", "scenario_2_size",
     "scenario_3_size", "scenario_4_size", "scenario_5_size", "scenario_6_size"}

\* C17: a written document has exactly the keys overall and by_scenario,
\* overall has exactly the keys overall_time and overall_size, and every key
\* of by_scenario is scenario_<n>_time or scenario_<n>_size with n in 1..6.
Thm_C17 ==
    Written =>
        /\ DOMAIN document.content = {"overall", "by_scenario"}
        /\ DOMAIN document.content.overall = {"overall_time", "overall_size"}
        /\ DOMAIN document.content.by_scenario \subseteq ScenarioKeys

\* a document with the comparisons of scenario 6
Wit_C17 ==
    /\ Written
    /\ DOMAIN document.content.by_scenario = {"scenario_6_time", "scenario_6_size"}

RECURSIVE TotalOf(_, _)
TotalOf(I, col) ==
    IF I = {} THEN 0
    ELSE LET i == CHOOSE k \in I : TRUE
         IN  csv.rows[i][col] + TotalOf(I \ {i}, col)

\* the result r counts the records I on its side `api` and its mean is theirs
CountsOnly(r, api, I, col) ==
    LET n == IF api = "REST" THEN r.rest_n ELSE r.graphql_n
        m == IF api = "REST" THEN r.rest_mean ELSE r.graphql_mean
    IN  /\ n = Cardinality(I)
        /\ IF I = {} THEN m.kind = "nan"
           ELSE m.kind = "rat" /\ m.n * Cardinality(I) = TotalOf(I, col) * m.d

\* the metric of a key
MetricOf(k) == IF k \in {"overall_time"} \cup {TimeKey(n) : n \in 1..NumScenarios}
               THEN "response_time_ms" ELSE "response_size_bytes"

\* C18: in every comparison, overall and of a scenario, of either metric,
\* rest_n and graphql_n are the numbers of records of that API kind in that
\* scope with success = true, and the means are those of these records: no
\* value of a failed record contributes.
Thm_C18 ==
    Written =>
        /\ \A k \in DOMAIN document.content.overall, api \in ApiKinds :
              CountsOnly(document.content.overall[k], api, OkOverall(api), MetricOf(k))
        /\ \A n \in 1..NumScenarios, api \in ApiKinds :
              /\ TimeKey(n) \in DOMAIN document.content.by_scenario =>
                    CountsOnly(document.content.by_scenario[TimeKey(n)], api,
                               OkRecords(api, n), "response_time_ms")
              /\ SizeKey(n) \in DOMAIN document.content.by_scenario =>
                    CountsOnly(document.content.by_scenario[SizeKey(n)], api,
                               OkRecords(api, n), "response_size_bytes")

\* a document for a dataset of one successful and one failed REST record
\* with different values
Wit_C18 ==
    /\ Written
    /\ \E i, j \in 1..Len(csv.rows) :
          /\ csv.rows[i].api_type = "REST" /\ csv.rows[i].success
          /\ csv.rows[j].api_type = "REST" /\ ~csv.rows[j].success
          /\ csv.rows[i].response_time_ms # csv.rows[j].response_time_ms
    /\ document.content.overall.overall_time.rest_n = 1

\* the columns the statistical analysis reads
RequiredColumns == {"api_type", "scenario", "success", "response_time_ms",
                    "response_size_bytes"}

\* the dataset is unreadable or lacks a column the analysis reads
Malformed == csv.exists /\ (~csv.readable \/ RequiredColumns \ csv.columns # {})

Orig_C19 ==
    (stage \in Stages /\ an_pc = "exited" /\ ~csv.exists) =>
        /\ failed_at = "find_latest_results"
        /\ outputs = {}
        /\ exit_status # 0

\* C26: in every result document, for each scenario n in 1..6 the key
\* scenario_<n>_time is present if and only if scenario_<n>_size is, and
\* when they are present the two results have the same rest_n and the same
\* graphql_n.
Thm_C26 ==
    Written =>
        \A n \in 1..NumScenarios :
            LET by == document.content.by_scenario
            IN  /\ TimeKey(n) \in DOMAIN by <=> SizeKey(n) \in DOMAIN by
                /\ TimeKey(n) \in DOMAIN by =>
                      /\ by[TimeKey(n)].rest_n = by[SizeKey(n)].rest_n
                      /\ by[TimeKey(n)].graphql_n = by[SizeKey(n)].graphql_n

\* a document with the two comparisons of a scenario, one of whose records
\* took 0 ms and one of whose records carried 0 bytes
Wit_C26 ==
    /\ Written
    /\ \E n \in 1..NumScenarios :
          /\ {TimeKey(n), SizeKey(n)} \subseteq DOMAIN document.content.by_scenario
          /\ document.content.by_scenario[TimeKey(n)].rest_n = 1
          /\ \E i, j \in 1..Len(csv.rows) :
                /\ csv.rows[i].scenario = n /\ csv.rows[j].scenario = n
                /\ csv.rows[i].response_time_ms = 0
                /\ csv.rows[j].response_size_bytes = 0

\* the scenarios by_scenario has
ScenariosPresent ==
    {n \in 1..NumScenarios : TimeKey(n) \in DOMAIN document.content.by_scenario}

RECURSIVE SumOver(_, _)
\* the sum of the count `field` of the time results of the scenarios N
SumOver(N, field) ==
    IF N = {} THEN 0
    ELSE LET n == CHOOSE m \in N : TRUE
         IN  document.content.by_scenario[TimeKey(n)][field] + SumOver(N \ {n}, field)

\* C27: the overall comparison pools every successful record of each API
\* kind, also those of scenarios without a comparison of their own: overall
\* rest_n and graphql_n are the numbers of successful REST and GraphQL
\* records of the dataset, and the sums of rest_n and of graphql_n over the
\* scenarios of by_scenario are at most the overall numbers.
Thm_C27 ==
    Written =>
        LET overall == document.content.overall
        IN  /\ \A k \in {"overall_time", "overall_size"} :
                  /\ overall[k].rest_n = Cardinality(OkOverall("REST"))
                  /\ overall[k].graphql_n = Cardinality(OkOverall("GRAPHQL"))
            /\ SumOver(ScenariosPresent, "rest_n") <= overall.overall_time.rest_n
            /\ SumOver(ScenariosPresent, "graphql_n") <= overall.overall_time.graphql_n

\* a document whose overall comparison counts a successful REST record of
\* a scenario that has no comparison: the sum is strictly smaller
Wit_C27 ==
    /\ Written
    /\ \E i \in OkOverall("REST") : csv.rows[i].scenario \notin ScenariosPresent
    /\ SumOver(ScenariosPresent, "rest_n") < document.content.overall.overall_time.rest_n

---------------------------------------------------------------------------
(* Further properties of run_benchmark *)

\* C21: every leaf causes exactly one HTTP exchange attempt: the requests
\* sent so far are as many as the records, a failed leaf has its one record
\* and is not attempted again (the record appended last is of a leaf that
\* no earlier record is of), and a completed run has sent as many
\* measurement requests as it has records.
Thm_C21 ==
    /\ requests = Len(results)
    /\ requests = Len(wire)
    /\ \A i \in 1..(Len(results) - 1) :
          Triple(results[i]) # Triple(results[Len(results)])
    /\ (phase \in {"PERSIST", "SUMMARY", "DONE"} /\ Passed) =>
          requests = 2 * 6 * REPLICATIONS

\* a completed run with a failed replication, one request for each record
Wit_C21 ==
    /\ phase = "DONE" /\ Passed
    /\ \E i \in 1..Len(results) : ~results[i].success /\ Fails(wire[i])
    /\ requests = Len(results) /\ requests > 0

---------------------------------------------------------------------------
(* The bootstrap of perform_statistical_tests and numpy's random source.    *)
(*                                                                          *)
(* np.random is one generator for the whole process: a stream of numbers    *)
(* fixed by its seed, and a position in it that every draw moves on.  The   *)
(* stream is a table of RngPeriod numbers read round and round; a draw of   *)
(* np.random.choice takes the next number modulo the length of the data as  *)
(* the index of the observation.  analyze_overall is followed on a frame of *)
(* successful records given in nondecreasing order: a record of v ms        *)
(* carries MaxValue - v bytes.  stats.shapiro gives the same p-value for a  *)
(* sample and for its mirror image c - x, so one answer serves both metrics *)
(* of an API kind.                                                          *)

\* np.percentile(differences, 2.5) and (differences, 97.5), in thousandths
CI_LOWER_Q == 25
CI_UPPER_Q == 975

\* the streams a seed can select: the numbers of a stream are 0 and 1, so a
\* resample is drawn from the first two values of a sample
Tapes == [1..RngPeriod -> {0, 1}]

\* the k-th number the source gives next
Raw(g, k) == g.tape[((g.pos + k - 2) % Len(g.tape)) + 1]

\* the source after k draws
Advance(g, k) == [g EXCEPT !.pos = ((g.pos + k - 1) % Len(g.tape)) + 1]

\* np.random.choice(data, size=len(data), replace=True)
Choice(data, g) == [i \in 1..Len(data) |-> data[(Raw(g, i) % Len(data)) + 1]]

\* the list `differences` after k rounds of the bootstrap loop
RECURSIVE Differences(_, _, _, _)
Differences(rest, gql, g, k) ==
    IF k = 0 THEN <<>>
    ELSE LET rest_sample == Choice(rest, g)
             graphql_sample == Choice(gql, Advance(g, Len(rest)))
         IN  <<Sub(Mean(graphql_sample), Mean(rest_sample))>>
             \o Differences(rest, gql, Advance(g, Len(rest) + Len(gql)), k - 1)

\* the source after one call of perform_statistical_tests
RngAfter(rest, gql, g) == Advance(g, N_BOOTSTRAP * (Len(rest) + Len(gql)))

\* a < b on fractions
Less(a, b) == a.n * b.d < b.n * a.d

\* the k-th smallest of the fractions ds
KthSmallest(ds, k) ==
    ds[CHOOSE i \in 1..Len(ds) :
          /\ Cardinality({j \in 1..Len(ds) : Less(ds[j], ds[i])}) < k
          /\ k <= Cardinality({j \in 1..Len(ds) : ~Less(ds[i], ds[j])})]

\* np.percentile(ds, q / 10): linear interpolation between the two order
\* statistics around position (len(ds) - 1) * q / 1000; nan if a value is nan
Percentile(ds, q) ==
    IF \E i \in 1..Len(ds) : ds[i].kind = "nan" THEN FNaN
    ELSE LET at == (Len(ds) - 1) * q
             lo == KthSmallest(ds, (at \div 1000) + 1)
             hi == IF at % 1000 = 0 THEN lo ELSE KthSmallest(ds, (at \div 1000) + 2)
         IN  Rat(lo.n * hi.d * (1000 - (at % 1000)) + hi.n * lo.d * (at % 1000),
                 lo.d * hi.d * 1000)

\* the result with mean_difference taken from the bootstrap differences
PerformWithRng_BootMean(rest, gql, metric, pR, pG, g) ==
    [ci_lower |-> Percentile(Differences(rest, gql, g, N_BOOTSTRAP), CI_LOWER_Q),
     ci_upper |-> Percentile(Differences(rest, gql, g, N_BOOTSTRAP), CI_UPPER_Q),
     mean_difference |-> Differences(rest, gql, g, N_BOOTSTRAP)[1]]
    @@ StatisticalTests(rest, gql, metric, pR, pG)

\* the dict perform_statistical_tests returns when the source is in state g
PerformWithRng(rest, gql, metric, pR, pG, g) ==
    [ci_lower |-> Percentile(Differences(rest, gql, g, N_BOOTSTRAP), CI_LOWER_Q),
     ci_upper |-> Percentile(Differences(rest, gql, g, N_BOOTSTRAP), CI_UPPER_Q)]
    @@ StatisticalTests(rest, gql, metric, pR, pG)

\* the column response_size_bytes of records given by their milliseconds
Bytes(sample) == [i \in 1..Len(sample) |-> MaxValue - sample[i]]

\* the two samples of a comparison of analyze_overall
RestOf(key, rest) == IF key = "overall_time" THEN rest ELSE Bytes(rest)
GraphqlOf(key, gql) == IF key = "overall_time" THEN gql ELSE Bytes(gql)
MetricName(key) == IF key = "overall_time" THEN "response_time_ms"
                   ELSE "response_size_bytes"

\* the comparison `key` computed with the source in state g
Comparison(key, rest, gql, lib, g) ==
    PerformWithRng(RestOf(key, rest), GraphqlOf(key, gql), MetricName(key),
                   lib.rest_p, lib.graphql_p, g)

\* the order in which analyze_overall fills its dict
OverallOrder == <<"overall_time", "overall_size">>

\* one perform_statistical_tests of analyze_overall
OverallCall ==
    /\ rn_pc \in {"overall_time", "overall_size"}
    /\ LET r == Comparison(rn_pc, rn_rest, rn_graphql, rn_lib, np_random)
       IN  IF MannWhitneyRaises(r, rn_rest, rn_graphql, rn_lib.raisesOnEmpty)
           THEN /\ rn_pc' = "raised"
                /\ UNCHANGED <<rn_results, np_random>>
           ELSE /\ rn_results' = [k \in DOMAIN rn_results \cup {rn_pc} |->
                                    IF k = rn_pc THEN r ELSE rn_results[k]]
                /\ np_random' = RngAfter(rn_rest, rn_graphql, np_random)
                /\ rn_pc' = IF rn_pc = OverallOrder[1] THEN OverallOrder[2] ELSE "returned"
    /\ UNCHANGED <<rn_rest, rn_graphql, rn_lib>>
    /\ UNCHANGED <<benchVars, statVars, anVars, dgVars, spVars, plVars>>

\* the samples in nondecreasing order
ResampleInputs ==
    {d \in UNION {[1..n -> 0..MaxValue] : n \in 0..MaxResample} :
        \A i \in 1..(Len(d) - 1) : d[i] <= d[i + 1]}

\* the answer of stats.shapiro for a sample: no call, or a p-value below or
\* above the level
ShapiroAnswers(sample) ==
    IF TestNormality(sample, NaN) = None THEN {None} ELSE {Num(0), Num(1000)}

\* a freshly seeded process calls analyze_overall
RandomInit ==
    /\ BenchInit
    /\ StatIdle
    /\ AnIdle
    /\ rn_pc = OverallOrder[1]
    /\ rn_rest \in ResampleInputs
    /\ rn_graphql \in ResampleInputs
    /\ \E t \in Tapes : np_random = [tape |-> t, pos |-> 1]
    /\ \E pR \in ShapiroAnswers(rn_rest), pG \in ShapiroAnswers(rn_graphql),
          e \in (IF rn_rest = <<>> \/ rn_graphql = <<>> THEN BOOLEAN ELSE {FALSE}) :
          rn_lib = [rest_p |-> pR, graphql_p |-> pG, raisesOnEmpty |-> e]
    /\ rn_results = <<>>
    /\ DgIdle
    /\ SpIdle
    /\ PlIdle

RandomNext == OverallCall

SpecRandom == RandomInit /\ [][RandomNext]_vars

\* the source as it was seeded
Seeded == [np_random EXCEPT !.pos = 1]

\* the comparison `key` when the comparisons are computed in the order `order`
InOrder(order, key) ==
    IF key = order[1]
    THEN Comparison(key, rn_rest, rn_graphql, rn_lib, Seeded)
    ELSE Comparison(key, rn_rest, rn_graphql, rn_lib,
                    RngAfter(rn_rest, rn_graphql, Seeded))

SourceStates == {[np_random EXCEPT !.pos = p] : p \in 1..RngPeriod}

\* the fields of a result the bootstrap sets
BootstrapFields == {"ci_lower", "ci_upper"}

---------------------------------------------------------------------------
(* The bootstrap block of perform_statistical_tests in floating-point       *)
(* arithmetic.  numpy computes in binary floating point, rounding every     *)
(* operation to the nearest number of MantissaBits significant bits, ties   *)
(* to the even mantissa: np.mean is a running sum followed by one division, *)
(* np.percentile interpolates between two order statistics.                 *)

\* the exponents followed
ExpRange == -14..6

\* the integer nearest to n / d, a tie going to the even one
RoundEven(n, d) ==
    LET q == n \div d
        r == n % d
    IN  IF 2 * r < d THEN q
        ELSE IF 2 * r > d THEN q + 1
        ELSE IF q % 2 = 0 THEN q ELSE q + 1

\* n / d > 0 rounded to MantissaBits significant bits
RoundPositive(n, d) ==
    LET e == CHOOSE k \in ExpRange :
                 IF k >= 0
                 THEN /\ 2^(MantissaBits - 1) * d * 2^k <= n
                      /\ n < 2^MantissaBits * d * 2^k
                 ELSE /\ 2^(MantissaBits - 1) * d <= n * 2^(-k)
                      /\ n * 2^(-k) < 2^MantissaBits * d
        m == IF e >= 0 THEN RoundEven(n, d * 2^e) ELSE RoundEven(n * 2^(-e), d)
    IN  IF e >= 0 THEN Rat(m * 2^e, 1) ELSE Rat(m, 2^(-e))

\* the floating-point number nearest to the fraction x
Fl(x) ==
    IF x.kind = "nan" THEN FNaN
    ELSE IF x.n = 0 THEN Rat(0, 1)
    ELSE IF x.n > 0 THEN RoundPositive(x.n, x.d)
    ELSE LET r == RoundPositive(-x.n, x.d) IN Rat(-r.n, r.d)

\* a * b on fractions
Mul(a, b) == IF a.kind = "nan" \/ b.kind = "nan" THEN FNaN ELSE Rat(a.n * b.n, a.d * b.d)

\* the floating-point operations
FlAdd(a, b) == Fl(Add(a, b))
FlSub(a, b) == Fl(Sub(a, b))
FlMul(a, b) == Fl(Mul(a, b))

\* the running sum of the first k values of s
RECURSIVE FlSum(_, _)
FlSum(s, k) == IF k = 0 THEN Rat(0, 1) ELSE FlAdd(FlSum(s, k - 1), Rat(s[k], 1))

\* np.mean: the running sum divided by the length
FlMean(s) == LET t == FlSum(s, Len(s)) IN Fl(Rat(t.n, t.d * Len(s)))

\* the list `differences` after k rounds of the bootstrap loop
RECURSIVE FlDifferences(_, _, _, _)
FlDifferences(rest, gql, g, k) ==
    IF k = 0 THEN <<>>
    ELSE LET rest_sample == Choice(rest, g)
             graphql_sample == Choice(gql, Advance(g, Len(rest)))
         IN  <<FlSub(FlMean(graphql_sample), FlMean(rest_sample))>>
             \o FlDifferences(rest, gql, Advance(g, Len(rest) + Len(gql)), k - 1)

\* np.percentile(ds, q / 10): lo + (hi - lo) * t below t = 0.5 and
\* hi - (hi - lo) * (1 - t) from there on, t the fraction of the position
FlPercentile(ds, q) ==
    LET at == (Len(ds) - 1) * q
        lo == KthSmallest(ds, (at \div 1000) + 1)
        hi == IF at % 1000 = 0 THEN lo ELSE KthSmallest(ds, (at \div 1000) + 2)
        t == Fl(Rat(at % 1000, 1000))
    IN  IF Less(t, Rat(1, 2))
        THEN FlAdd(lo, FlMul(FlSub(hi, lo), t))
        ELSE FlSub(hi, FlMul(FlSub(hi, lo), FlSub(Rat(1, 1), t)))

\* ci_lower and ci_upper as perform_statistical_tests computes them
FlInterval(rest, gql, g) ==
    [ci_lower |-> FlPercentile(FlDifferences(rest, gql, g, N_BOOTSTRAP), CI_LOWER_Q),
     ci_upper |-> FlPercentile(FlDifferences(rest, gql, g, N_BOOTSTRAP), CI_UPPER_Q)]

\* the bootstrap block of one call of perform_statistical_tests
Bootstrap ==
    /\ rn_pc = "bootstrap"
    /\ rn_results' = FlInterval(rn_rest, rn_graphql, np_random)
    /\ np_random' = RngAfter(rn_rest, rn_graphql, np_random)
    /\ rn_pc' = "returned"
    /\ UNCHANGED <<rn_rest, rn_graphql, rn_lib>>
    /\ UNCHANGED <<benchVars, statVars, anVars, dgVars, spVars, plVars>>

\* the floating-point numbers of one binade, which are whole numbers
FloatValues == 2^(MantissaBits - 1)..(2^MantissaBits - 1)

\* non-empty samples of floating-point numbers, in nondecreasing order
FloatSamples ==
    {d \in UNION {[1..n -> FloatValues] : n \in 1..MaxSample} :
        \A i \in 1..(Len(d) - 1) : d[i] <= d[i + 1]}

\* perform_statistical_tests is called with two non-empty samples
FloatInit ==
    /\ BenchInit
    /\ StatIdle
    /\ AnIdle
    /\ rn_pc = "bootstrap"
    /\ rn_rest \in FloatSamples
    /\ rn_graphql \in FloatSamples
    /\ \E t \in [1..RngPeriod -> 0..(MaxSample - 1)] : np_random = [tape |-> t, pos |-> 1]
    /\ rn_lib = [rest_p |-> None, graphql_p |-> None, raisesOnEmpty |-> FALSE]
    /\ rn_results = <<>>
    /\ DgIdle
    /\ SpIdle
    /\ PlIdle

FloatNext == Bootstrap

SpecFloat == FloatInit /\ [][FloatNext]_vars

\* a <= b on fractions
AtMost(a, b) == ~Less(b, a)

\* the smallest and the largest value of a sample in nondecreasing order
MinOf(sample) == sample[1]
MaxOf(sample) == sample[Len(sample)]

\* C28: for two non-empty samples and any outcome of the resampling,
\* ci_lower <= ci_upper and both lie within
\* [min(GraphQL) - max(REST), max(GraphQL) - min(REST)].
Orig_C28 ==
    rn_pc = "returned" =>
        /\ AtMost(rn_results.ci_lower, rn_results.ci_upper)
        /\ AtMost(Rat(MinOf(rn_graphql) - MaxOf(rn_rest), 1), rn_results.ci_lower)
        /\ AtMost(rn_results.ci_upper, Rat(MaxOf(rn_graphql) - MinOf(rn_rest), 1))

---------------------------------------------------------------------------
(* Termination of run_benchmark *)

\* run_benchmark is one thread of straight-line code and every exchange
\* returns or raises within its timeout: a step that can be taken is taken
SpecLive == Spec /\ WF_vars(Next)

\* C25: every run ends, and a run whose health check passed ends in DONE
\* after all its warm-up rounds, after exactly 2 x 6 x REPLICATIONS
\* measurement requests and with its dataset written, whatever the warm-up
\* probes and the measured exchanges answered.
Thm_C25 ==
    <>(/\ phase = "DONE"
       /\ Passed =>
             /\ warm_i = WARMUP_ROUNDS
             /\ requests = 2 * NumScenarios * REPLICATIONS
             /\ Len(results) = 2 * NumScenarios * REPLICATIONS
             /\ writes = 1
             /\ completed = <<(<<RESULTS_FILE, Rows(results)>>)>>)

\* a run that is done with all its requests made and its dataset written,
\* after a warm-up probe that raised
Wit_C25 ==
    /\ phase = "DONE" /\ Passed /\ writes = 1
    /\ warmupProbes < 2 * WARMUP_ROUNDS
    /\ requests = 2 * NumScenarios * REPLICATIONS

---------------------------------------------------------------------------
(* The request descriptors of benchmark.py: scenario_<n>_rest and           *)
(* scenario_<n>_graphql, called once for each leaf of the measurement loops.*)
(*                                                                          *)
(* Every generator draws from the module `random` on its own.  A draw of    *)
(* random.randint(1, 1000) is followed for the two ends of the range; at    *)
(* most MaxDeviations draws of a run are not the first value of their range.*)

\* what a generator draws with randint(0, 1000)
ParametersOf_FromZero(n) ==
    IF n \in {1, 4, 5}
    THEN {[user_id |-> u, status |-> "", limit |-> 0] : u \in {0, USER_ID_MAX}}
    ELSE IF n = 3
    THEN {[user_id |-> 0, status |-> st, limit |-> l] :
             st \in {"active", "inactive"}, l \in {10, 20, 50}}
    ELSE {[user_id |-> 0, status |-> "", limit |-> 0]}

\* what the two generators of scenario n can draw: user_id by randint(1, 1000),
\* limit by choice([10, 20, 50]), status by choice(['active', 'inactive']);
\* 0 and "" stand for a parameter the scenario does not have
ParametersOf(n) ==
    IF n \in {1, 4, 5}
    THEN {[user_id |-> u, status |-> "", limit |-> 0] : u \in {USER_ID_MIN, USER_ID_MAX}}
    ELSE IF n = 3
    THEN {[user_id |-> 0, status |-> st, limit |-> l] :
             st \in {"active", "inactive"}, l \in {10, 20, 50}}
    ELSE {[user_id |-> 0, status |-> "", limit |-> 0]}

\* the first value of each range
FirstDraw(n) ==
    IF n \in {1, 4, 5} THEN [user_id |-> USER_ID_MIN, status |-> "", limit |-> 0]
    ELSE IF n = 3 THEN [user_id |-> 0, status |-> "active", limit |-> 10]
    ELSE [user_id |-> 0, status |-> "", limit |-> 0]

\* (url, method, payload) of SCENARIOS[api][n]() for the drawn parameters
Descriptor(api, n, q) ==
    [api_type |-> api, scenario |-> n, method |-> ScenarioMethod(api, n),
     user_id |-> q.user_id, status |-> q.status, limit |-> q.limit]

\* `url, method, payload = scenario_func()` of one leaf, then the next leaf
GenerateDescriptor ==
    /\ dg_leaf[1] # 0
    /\ \E q \in ParametersOf(dg_leaf[2]) :
          /\ q = FirstDraw(dg_leaf[2]) \/ dg_odd < MaxDeviations
          /\ dg_odd' = IF q = FirstDraw(dg_leaf[2]) THEN dg_odd ELSE dg_odd + 1
          /\ dg_drawn' = Append(dg_drawn,
                                [replication |-> dg_leaf[3]]
                                @@ Descriptor(API_TYPES[dg_leaf[1]], dg_leaf[2], q))
    /\ dg_leaf' = NextLeaf(dg_leaf[1], dg_leaf[2], dg_leaf[3])
    /\ UNCHANGED <<benchVars, statVars, anVars, rnVars, spVars, plVars>>

\* the measurement loops are entered
DescriptorInit ==
    /\ BenchInit
    /\ StatIdle
    /\ AnIdle
    /\ RnIdle
    /\ dg_leaf = <<1, 1, 1>>
    /\ dg_drawn = <<>>
    /\ dg_odd = 0
    /\ SpIdle
    /\ PlIdle

DescriptorNext == GenerateDescriptor

SpecDescriptors == DescriptorInit /\ [][DescriptorNext]_vars

\* C23: every drawn identifier is in 1..1000, every limit in {10, 20, 50}
\* and every status active or inactive, in the scenarios 1, 3, 4, 5 that
\* draw them; the REST and the GraphQL generator of a scenario draw on
\* their own, so that the two requests of one scenario and replication can
\* differ in their parameters.
Thm_C23 ==
    \A i \in 1..Len(dg_drawn) :
        LET d == dg_drawn[i]
        IN  /\ d.scenario \in {1, 4, 5} =>
                  d.user_id \in 1..1000 /\ d.limit = 0 /\ d.status = ""
            /\ d.scenario = 3 =>
                  d.limit \in {10, 20, 50} /\ d.status \in {"active", "inactive"}
            /\ d.scenario \in {2, 6} => d.user_id = 0 /\ d.limit = 0 /\ d.status = ""

\* the REST and the GraphQL request of one scenario and replication with
\* different identifiers
Wit_C23 ==
    \E i, j \in 1..Len(dg_drawn) :
        /\ dg_drawn[i].api_type = "rest" /\ dg_drawn[j].api_type = "graphql"
        /\ dg_drawn[i].scenario = dg_drawn[j].scenario
        /\ dg_drawn[i].replication = dg_drawn[j].replication
        /\ dg_drawn[i].scenario \in {1, 4, 5}
        /\ dg_drawn[i].user_id # dg_drawn[j].user_id

---------------------------------------------------------------------------
(* run_sprint2.py: the three stages of the analysis pipeline, each run as a *)
(* child process by run_command.                                            *)

\* the commands of main, in the order of its calls of run_command
SPRINT_STAGES == <<"statistical_analysis", "create_dashboard", "generate_report">>

\* what subprocess.run reports of a child: its return code and whether it
\* wrote to stdout and to stderr
StageOutcomes == [returncode : 0..MaxReturnCode, stdout : BOOLEAN, stderr : BOOLEAN]

\* run_command answering True whatever the child returned
RunCommand_Ignore(o) == TRUE

\* run_command: False when the return code is not 0
RunCommand(o) == o.returncode = 0

\* main up to its first call of run_command: the glob and its check
SprintCheck ==
    /\ sp_pc = "start"
    /\ IF sp_files = 0
       THEN sp_pc' = "exited" /\ sp_status' = 1
       ELSE sp_pc' = "launch" /\ sp_status' = sp_status
    /\ UNCHANGED <<sp_files, sp_started, sp_ended>>
    /\ UNCHANGED <<benchVars, statVars, anVars, rnVars, dgVars, plVars>>

\* run_command up to subprocess.run: the child of the next stage is started
StartStage ==
    /\ sp_pc = "launch"
    /\ sp_started' = Append(sp_started, SPRINT_STAGES[Len(sp_started) + 1])
    /\ sp_pc' = "waiting"
    /\ UNCHANGED <<sp_files, sp_ended, sp_status>>
    /\ UNCHANGED <<benchVars, statVars, anVars, rnVars, dgVars, plVars>>

\* the child exits: subprocess.run returns, run_command answers, and main
\* exits with 1, goes on to the next stage or returns after the last one
StageExit ==
    /\ sp_pc = "waiting"
    /\ \E o \in StageOutcomes :
          /\ sp_ended' = Append(sp_ended, o)
          /\ IF ~RunCommand(o)
             THEN sp_pc' = "exited" /\ sp_status' = 1
             ELSE IF Len(sp_started) < Len(SPRINT_STAGES)
             THEN sp_pc' = "launch" /\ sp_status' = sp_status
             ELSE sp_pc' = "exited" /\ sp_status' = 0
    /\ UNCHANGED <<sp_files, sp_started>>
    /\ UNCHANGED <<benchVars, statVars, anVars, rnVars, dgVars, plVars>>

\* run_sprint2 is started in a results directory with any number of datasets
SprintInit ==
    /\ BenchInit
    /\ StatIdle
    /\ AnIdle
    /\ RnIdle
    /\ DgIdle
    /\ sp_pc = "start"
    /\ sp_files \in 0..MaxRuns
    /\ sp_started = <<>>
    /\ sp_ended = <<>>
    /\ sp_status = -1
    /\ PlIdle

SprintNext == SprintCheck \/ StartStage \/ StageExit

SpecSprint == SprintInit /\ [][SprintNext]_vars

\* is s a prefix of t
IsPrefix(s, t) == Len(s) <= Len(t) /\ \A i \in 1..Len(s) : s[i] = t[i]

\* C24: the stages are started in the order statistical analysis,
\* dashboard, report, one at a time; a stage is started only after the one
\* before it has exited with status 0; when a stage exits with another
\* status run_sprint2 exits with 1 and starts nothing more; without a
\* dataset no stage is started.
Thm_C24 ==
    /\ IsPrefix(sp_started, SPRINT_STAGES)
    /\ Len(sp_ended) \in {Len(sp_started), Len(sp_started) - 1} \cap Nat
    /\ \A i \in 1..Len(sp_started) - 1 : sp_ended[i].returncode = 0
    /\ \A i \in 1..Len(sp_ended) :
          sp_ended[i].returncode # 0 =>
              sp_status = 1 /\ sp_pc = "exited" /\ Len(sp_started) = i
    /\ sp_files = 0 => sp_started = <<>> /\ (sp_pc # "start" => sp_status = 1)
    /\ sp_status = 0 => Len(sp_ended) = Len(SPRINT_STAGES)

\* the dashboard stage has failed after a successful analysis: run_sprint2
\* has exited with 1 and the report stage was not started
Wit_C24 ==
    /\ sp_started = <<"statistical_analysis", "create_dashboard">>
    /\ Len(sp_ended) = 2
    /\ sp_ended[2].returncode # 0
    /\ sp_status = 1

---------------------------------------------------------------------------
(* The results directory shared by benchmark.py, statistical_analysis.py    *)
(* and generate_report.py: runs of the three scripts following one another  *)
(* in any order.  A dataset is named by the number of the run that wrote    *)
(* it.  statistical_results.json does not say which dataset it was computed *)
(* from; the model remembers it beside the file.                            *)

NoStats == [exists |-> FALSE, source |-> 0]

\* find_latest_results: max(csv_files, key=os.path.getmtime)
FindLatestResults(fs) ==
    CHOOSE f \in fs : \A h \in fs : h.mtime <= f.mtime

\* a run of benchmark.py that passes its health check writes a new dataset
BenchmarkRun ==
    /\ Cardinality(pl_files) < MaxRuns
    /\ pl_clock' = pl_clock + 1
    /\ pl_files' = pl_files \cup {[name |-> Cardinality(pl_files) + 1,
                                   mtime |-> pl_clock + 1]}
    /\ UNCHANGED <<pl_stats, pl_reports, pl_analysing, pl_reading>>
    /\ UNCHANGED <<benchVars, statVars, anVars, rnVars, dgVars, spVars>>

\* main of statistical_analysis.py up to df_success, for the dataset f
AnalysisLoad(f) ==
    /\ pl_analysing = 0
    /\ pl_analysing' = f.name
    /\ UNCHANGED <<pl_files, pl_clock, pl_stats, pl_reports, pl_reading>>
    /\ UNCHANGED <<benchVars, statVars, anVars, rnVars, dgVars, spVars>>

\* `python scripts/statistical_analysis.py`: the latest dataset
AnalysisStart ==
    /\ pl_files # {}
    /\ AnalysisLoad(FindLatestResults(pl_files))

\* `python scripts/statistical_analysis.py <dataset>`
AnalysisStartWithPath == \E f \in pl_files : AnalysisLoad(f)

\* the rest of main: the analysis and save_results, or (ok false) an
\* exception that ends the process before save_results
AnalysisSave ==
    /\ pl_analysing # 0
    /\ \E ok \in BOOLEAN :
          pl_stats' = IF ok THEN [exists |-> TRUE, source |-> pl_analysing] ELSE pl_stats
    /\ pl_analysing' = 0
    /\ UNCHANGED <<pl_files, pl_clock, pl_reports, pl_reading>>
    /\ UNCHANGED <<benchVars, statVars, anVars, rnVars, dgVars, spVars>>

\* generate_report: find_latest_results and pd.read_csv
ReportLoad ==
    /\ pl_reading = 0
    /\ pl_files # {}
    /\ Len(pl_reports) < MaxRuns
    /\ pl_reading' = FindLatestResults(pl_files).name
    /\ UNCHANGED <<pl_files, pl_clock, pl_stats, pl_reports, pl_analysing>>
    /\ UNCHANGED <<benchVars, statVars, anVars, rnVars, dgVars, spVars>>

\* generate_report: load_statistical_results, and the report written by main
ReportWrite ==
    /\ pl_reading # 0
    /\ pl_reports' = Append(pl_reports, [dataset |-> pl_reading, stats |-> pl_stats])
    /\ pl_reading' = 0
    /\ UNCHANGED <<pl_files, pl_clock, pl_stats, pl_analysing>>
    /\ UNCHANGED <<benchVars, statVars, anVars, rnVars, dgVars, spVars>>

PipelineInit ==
    /\ BenchInit
    /\ StatIdle
    /\ AnIdle
    /\ RnIdle
    /\ DgIdle
    /\ SpIdle
    /\ pl_files = {}
    /\ pl_clock = 0
    /\ pl_stats = NoStats
    /\ pl_reports = <<>>
    /\ pl_analysing = 0
    /\ pl_reading = 0

PipelineNext ==
    \/ BenchmarkRun
    \/ AnalysisStart
    \/ AnalysisStartWithPath
    \/ AnalysisSave
    \/ ReportLoad
    \/ ReportWrite

SpecPipeline == PipelineInit /\ [][PipelineNext]_vars

\* C30: whenever the report generator emits its statistical sections, the
\* result document it read was computed from the dataset it selected as the
\* latest one, for any interleaving of benchmark runs, analysis runs (with
\* or without a dataset path) and report generation.
Orig_C30 ==
    \A i \in 1..Len(pl_reports) :
        pl_reports[i].stats.exists => pl_reports[i].stats.source = pl_reports[i].dataset

=============================================================================
